---- MODULE Spec2Model ----
(***************************************************************************)
(* Trace assembly of the VM processor (processor/src/trace/mod.rs):        *)
(* ExecutionTrace::new / finalize_trace, and the winterfell Trace          *)
(* implementation of ExecutionTrace (layout, length, build_aux_segment,    *)
(* read_main_frame).                                                       *)
(*                                                                         *)
(* Every build b is one call of ExecutionTrace::new on its own Process,    *)
(* followed by calls of the Trace methods on the trace it returned.        *)
(* pc[b] is the position of build b inside finalize_trace; the loops that  *)
(* draw from the random coin advance one draw per step.                    *)
(*                                                                         *)
(* Rows are indexed from 0 as in the source (a column is a function on     *)
(* 0..len-1); the list of columns is a sequence in concatenation order.    *)
(* Field elements are the integers modulo FieldSize, lengths are scaled    *)
(* down (MIN_TRACE_LEN, TRACE_WIDTH).                                      *)
(***************************************************************************)
EXTENDS Integers, Sequences, FiniteSets, TLC

\* ------------------------------------------------------------------ bounds
\* number of field elements of the scaled-down field
FieldSize == 11
\* largest length a partial trace reports
MaxLen == 3
\* number of distinct program hashes
NumSeeds == 2
\* number of distinct verifier challenges passed to build_aux_segment
NumChallenges == 1

\* --------------------------------------------------------------- constants
NUM_RAND_ROWS == 1
\* vm_core constants, scaled down
MIN_TRACE_LEN == 2
\* one column per component: system, decoder, stack, range checker, aux table
TRACE_WIDTH == 5
\* index (from 1) of the range checker's value column in the main trace
V_COL_IDX == 4

Felt == 0 .. (FieldSize - 1)
Lens == 0 .. MaxLen
Seeds == 1 .. NumSeeds
Challenges == 1 .. NumChallenges
\* the absent value of an Option, and the absent panic message
NONE == [none |-> TRUE]
NoPanic == "none"

VARIABLES
    proc,        \* proc[b]: the Process consumed by build b (component lengths, program hash)
    pc,          \* pc[b]: position of build b
    rng,         \* rng[b]: the coin of ExecutionTrace::new, [seed, counter]
    trace_len,   \* trace_len[b]: local of finalize_trace
    trace,       \* trace[b]: local of finalize_trace, the concatenated columns
    hints,       \* hints[b]: range_check_trace.aux_trace_hints
    loop,        \* loop[b]: [i, c] indices of the injection loop in progress
    draws,       \* draws[b]: log of the draws of the injection loop in progress / last finished
    et,          \* et[b]: the ExecutionTrace returned by new, or NONE
    panic,       \* panic[b]: message of the panic that ended build b, or NoPanic
    materialized,\* materialized[b]: number of into_trace calls made
    aux,         \* aux[b]: the build_aux_segment call in progress (or its last arguments)
    aux_ret,     \* aux_ret[b]: what the last build_aux_segment call returned
    aux_segments,\* aux_segments[b]: the caller's list of auxiliary segments
    frame,       \* frame[b]: the evaluation frame last filled by read_main_frame
    sponge,      \* the sponge state a caller of utils/sponge.rs holds, and its inputs
    fragment     \* a TraceFragment, the column buffers and the slices its caller holds

trace_vars == <<proc, pc, rng, trace_len, trace, hints, loop, draws, et, panic,
                materialized, aux, aux_ret, aux_segments, frame>>

vars == <<trace_vars, sponge, fragment>>

\* no sponge in use, no fragment in use
NoSponge == [kind |-> "idle"]
NoFragment == [kind |-> "idle"]

Builds == DOMAIN proc

\* ----------------------------------------------------------- random coin
\* RandomCoin::new(seed bytes): a fresh coin holds the seed and a zero counter
RandomCoinNew(seed) == [seed |-> seed, counter |-> 0]

\* the element the coin yields at a given counter: a function of seed and counter only
DrawValue(seed, counter) == (seed * 7 + counter * 3 + seed * counter + 1) % FieldSize

\* rng.draw(): Ok(value) or Err; whether the sampling fails is not decided here
Draw(coin, ok) ==
    IF ok THEN [ok |-> TRUE, value |-> DrawValue(coin.seed, coin.counter)]
    ELSE [ok |-> FALSE, value |-> "error"]

\* the coin after a draw
CoinAfterDraw(coin) == [coin EXCEPT !.counter = @ + 1]

\* .expect("failed to draw a random value"): the value of an Ok, a panic on an Err
UnwrapOrDefault(res) == [panics |-> FALSE, value |-> IF res.ok THEN res.value ELSE 0]
Expect(res) == [panics |-> ~res.ok, value |-> res.value]

\* ------------------------------------------------------ partial traces
\* the cell a component writes at row r of its column: its own rows, then padding
ComponentCell(k, r, len) == IF r < len THEN ((k + 1) * r + k) % FieldSize ELSE 0

\* system.into_trace: the clk column counts the rows of the whole trace
SystemIntoTrace(p, len, num_rand_rows) ==
    << [r \in 0 .. (len - 1) |-> r % FieldSize] >>

DecoderIntoTrace(p, len, num_rand_rows) ==
    << [r \in 0 .. (len - 1) |-> ComponentCell(1, r, p.decoder)] >>

StackIntoTrace(p, len, num_rand_rows) ==
    << [r \in 0 .. (len - 1) |-> ComponentCell(2, r, p.stack)] >>

\* range.into_trace returns the columns and the hints for the auxiliary columns
RangeIntoTrace(p, len, num_rand_rows) ==
    [trace |-> << [r \in 0 .. (len - 1) |-> ComponentCell(3, r, p.range)] >>,
     aux_trace_hints |-> [rows |-> p.range]]

AuxTableIntoTrace(p, len, num_rand_rows) ==
    << [r \in 0 .. (len - 1) |-> ComponentCell(4, r, p.aux_table)] >>

\* ------------------------------------------------------------- helpers
RECURSIVE Pow2From(_, _)
Pow2From(p, n) == IF p >= n THEN p ELSE Pow2From(2 * p, n)

\* usize::next_power_of_two: the smallest power of two >= n (1 for n = 0)
NextPowerOfTwo(n) == Pow2From(1, n)

Max2(a, b) == IF a >= b THEN a ELSE b

\* [clk, range.trace_len(), aux_table.trace_len()].into_iter().max()
MaxLenNoAux(p) == Max2(p.clk, p.range)
MaxComponentLen(p) == Max2(Max2(p.clk, p.range), p.aux_table)

\* (max_len + NUM_RAND_ROWS).next_power_of_two()
PaddedTraceLen(max_len) == NextPowerOfTwo(max_len + NUM_RAND_ROWS)

\* Matrix::num_rows: the length of the first column
NumRows(columns) == Cardinality(DOMAIN columns[1])

\* Matrix::read_row_into: the row at row_idx across all columns; an index past the
\* last row panics
RowInBounds(columns, row_idx) == row_idx \in DOMAIN columns[1]
ReadRowInto(columns, row_idx) == [c \in 1 .. Len(columns) |-> columns[c][row_idx]]

\* Trace::length
Length(t) == NumRows(t.main_trace)

\* TraceLayout::new(TRACE_WIDTH, [2], [1])
LayoutOneAuxColumn == [main_width |-> TRACE_WIDTH, aux_widths |-> <<1>>, aux_rands |-> <<1>>]
NewLayout == [main_width |-> TRACE_WIDTH, aux_widths |-> <<2>>, aux_rands |-> <<1>>]

NoLoop == [i |-> 0, c |-> 0]
NoAux == [state |-> "idle"]
NoFrame == NONE

\* ------------------------------------------------------------ Init
\* the step-driven components report the step count or a length next to it
StepLens(clk) == {l \in Lens : l - clk \in {-1, 0, 1}}

Processes ==
    {[clk |-> k, system |-> s, decoder |-> d, stack |-> st, range |-> rg,
      aux_table |-> ax, program_hash |-> h] :
        k \in Lens, s \in Lens, d \in Lens, st \in Lens, rg \in Lens, ax \in Lens, h \in Seeds}

ValidStepProcess(p) ==
    /\ p.system \in StepLens(p.clk)
    /\ p.decoder \in StepLens(p.clk)
    /\ p.stack \in StepLens(p.clk)

InitWith(B, P) ==
    /\ proc \in [B -> P]
    /\ pc = [b \in B |-> "new"]
    /\ rng = [b \in B |-> NONE]
    /\ trace_len = [b \in B |-> 0]
    /\ trace = [b \in B |-> <<>>]
    /\ hints = [b \in B |-> NONE]
    /\ loop = [b \in B |-> NoLoop]
    /\ draws = [b \in B |-> <<>>]
    /\ et = [b \in B |-> NONE]
    /\ panic = [b \in B |-> NoPanic]
    /\ materialized = [b \in B |-> 0]
    /\ aux = [b \in B |-> NoAux]
    /\ aux_ret = [b \in B |-> NONE]
    /\ aux_segments = [b \in B |-> <<>>]
    /\ frame = [b \in B |-> NoFrame]

Init ==
    /\ InitWith({1}, {p \in Processes : ValidStepProcess(p)})
    /\ sponge = NoSponge
    /\ fragment = NoFragment

\* --------------------------------------------------- ExecutionTrace::new
\* the unwinding of a panic drops every local of the build
Abort(b, msg) ==
    /\ pc' = [pc EXCEPT ![b] = "panic"]
    /\ panic' = [panic EXCEPT ![b] = msg]
    /\ rng' = [rng EXCEPT ![b] = NONE]
    /\ trace' = [trace EXCEPT ![b] = <<>>]
    /\ hints' = [hints EXCEPT ![b] = NONE]
    /\ loop' = [loop EXCEPT ![b] = NoLoop]

\* the seed of the coin of new
MainSeedClk(p) == p.clk
MainSeed(p) == p.program_hash

\* new, lines 62-63: the coin is seeded from the program hash
New(b) ==
    /\ pc[b] = "new"
    /\ rng' = [rng EXCEPT ![b] = RandomCoinNew(MainSeed(proc[b]))]
    /\ pc' = [pc EXCEPT ![b] = "assert_lens"]
    /\ UNCHANGED <<proc, trace_len, trace, hints, loop, draws, et, panic,
                   materialized, aux, aux_ret, aux_segments, frame>>

\* the message of the first assert_eq that fails, or NoPanic
StepLenFailureNoDecoder(p) ==
    IF p.clk # p.system THEN "inconsistent system trace lengths"
    ELSE IF p.clk # p.stack THEN "inconsistent stack trace lengths"
    ELSE NoPanic
StepLenFailure(p) ==
    IF p.clk # p.system THEN "inconsistent system trace lengths"
    ELSE IF p.clk # p.decoder THEN "inconsistent decoder trace length"
    ELSE IF p.clk # p.stack THEN "inconsistent stack trace lengths"
    ELSE NoPanic

\* finalize_trace, lines 265-276
AssertStepLengths(b) ==
    /\ pc[b] = "assert_lens"
    /\ IF StepLenFailure(proc[b]) # NoPanic
       THEN /\ Abort(b, StepLenFailure(proc[b]))
            /\ UNCHANGED <<proc, trace_len, draws, et, materialized, aux, aux_ret,
                           aux_segments, frame>>
       ELSE /\ pc' = [pc EXCEPT ![b] = "trace_len"]
            /\ UNCHANGED <<proc, rng, trace_len, trace, hints, loop, draws, et, panic,
                           materialized, aux, aux_ret, aux_segments, frame>>

\* whether the assert on the padded length lets the build go on
MinLenUnchecked(len) == TRUE
MinLenAsserted(len) == len >= MIN_TRACE_LEN

\* finalize_trace, lines 278-292
ComputeTraceLen(b) ==
    /\ pc[b] = "trace_len"
    /\ LET len == PaddedTraceLen(MaxComponentLen(proc[b])) IN
       IF MinLenAsserted(len)
       THEN /\ trace_len' = [trace_len EXCEPT ![b] = len]
            /\ pc' = [pc EXCEPT ![b] = "into_trace"]
            /\ UNCHANGED <<proc, rng, trace, hints, loop, draws, et, panic,
                           materialized, aux, aux_ret, aux_segments, frame>>
       ELSE /\ Abort(b, "trace length must be at least")
            /\ UNCHANGED <<proc, trace_len, draws, et, materialized, aux, aux_ret,
                           aux_segments, frame>>

\* lines 301-307: the columns chained in the fixed order
ChainColumns(p, len) ==
    SystemIntoTrace(p, len, NUM_RAND_ROWS)
        \o DecoderIntoTrace(p, len, NUM_RAND_ROWS)
        \o StackIntoTrace(p, len, NUM_RAND_ROWS)
        \o RangeIntoTrace(p, len, NUM_RAND_ROWS).trace
        \o AuxTableIntoTrace(p, len, NUM_RAND_ROWS)

\* finalize_trace, lines 294-307, and the entry of the loop of line 310
IntoTraces(b) ==
    /\ pc[b] = "into_trace"
    /\ trace' = [trace EXCEPT ![b] = ChainColumns(proc[b], trace_len[b])]
    /\ hints' = [hints EXCEPT ![b] =
                    RangeIntoTrace(proc[b], trace_len[b], NUM_RAND_ROWS).aux_trace_hints]
    /\ materialized' = [materialized EXCEPT ![b] = 5]
    /\ loop' = [loop EXCEPT ![b] = [i |-> trace_len[b] - NUM_RAND_ROWS, c |-> 1]]
    /\ draws' = [draws EXCEPT ![b] = <<>>]
    /\ pc' = [pc EXCEPT ![b] = "inject"]
    /\ UNCHANGED <<proc, rng, trace_len, et, panic, aux, aux_ret, aux_segments, frame>>

\* the loop indices after the cell (i, c) of a matrix of `width` columns
NextCell(l, width) ==
    IF l.c < width THEN [l EXCEPT !.c = @ + 1] ELSE [i |-> l.i + 1, c |-> 1]

\* the columns the injection loop of finalize_trace visits
InjectedColumnsButLast(columns) == Len(columns) - 1
InjectedColumns(columns) == Len(columns)

\* finalize_trace, lines 310-314: one execution of line 312
InjectRandom(b) ==
    /\ pc[b] = "inject"
    /\ loop[b].i < trace_len[b]
    /\ loop[b].c <= InjectedColumns(trace[b])
    /\ \E ok \in BOOLEAN :
        LET res == Draw(rng[b], ok)
            got == Expect(res)
            entry == [n |-> rng[b].counter, i |-> loop[b].i, c |-> loop[b].c,
                      ok |-> res.ok, value |-> got.value]
        IN
        /\ draws' = [draws EXCEPT ![b] = Append(@, entry)]
        /\ IF got.panics
           THEN /\ Abort(b, "failed to draw a random value")
                /\ UNCHANGED <<proc, trace_len, et, materialized, aux, aux_ret,
                               aux_segments, frame>>
           ELSE /\ trace' = [trace EXCEPT ![b][loop[b].c][loop[b].i] = got.value]
                /\ rng' = [rng EXCEPT ![b] = CoinAfterDraw(@)]
                /\ loop' = [loop EXCEPT ![b] = NextCell(@, InjectedColumns(trace[b]))]
                /\ UNCHANGED <<proc, pc, trace_len, hints, et, panic, materialized, aux,
                               aux_ret, aux_segments, frame>>

\* finalize_trace, lines 316-320, and new, lines 66-72
FinishTrace(b) ==
    /\ pc[b] = "inject"
    /\ loop[b].i >= trace_len[b]
    /\ et' = [et EXCEPT ![b] =
                [meta |-> <<>>,
                 layout |-> NewLayout,
                 main_trace |-> trace[b],
                 aux_trace_hints |-> [range |-> hints[b]],
                 program_hash |-> proc[b].program_hash]]
    /\ pc' = [pc EXCEPT ![b] = "built"]
    /\ rng' = [rng EXCEPT ![b] = NONE]
    /\ trace' = [trace EXCEPT ![b] = <<>>]
    /\ hints' = [hints EXCEPT ![b] = NONE]
    /\ loop' = [loop EXCEPT ![b] = NoLoop]
    /\ UNCHANGED <<proc, trace_len, draws, panic, materialized, aux, aux_ret,
                   aux_segments, frame>>

\* -------------------------------------------------- Trace::build_aux_segment
\* the running product of (alpha + shift + v[r]) over the rows the hints cover
RECURSIVE RunningProduct(_, _, _, _, _)
RunningProduct(alpha, shift, v_col, rows, r) ==
    IF r = 0 THEN 1
    ELSE IF r - 1 < rows
         THEN (RunningProduct(alpha, shift, v_col, rows, r - 1)
                  * (alpha + shift + v_col[r - 1])) % FieldSize
         ELSE RunningProduct(alpha, shift, v_col, rows, r - 1)

\* range::build_aux_columns: the running product columns, each of `length` rows
BuildAuxColumns(length, range_hints, alpha, v_col) ==
    << [r \in 0 .. (length - 1) |-> RunningProduct(alpha, 0, v_col, range_hints.rows, r)],
       [r \in 0 .. (length - 1) |-> RunningProduct(alpha, 1, v_col, range_hints.rows, r)] >>

\* the guard of line 157: the call goes on building only for an empty list
BuildsAlways(aux_segs) == TRUE
BuildsSegment(aux_segs) == aux_segs = <<>>

\* the row at which the injection loop of build_aux_segment starts
AuxFirstRandRow(t) == Length(t) - NUM_RAND_ROWS

\* the length passed to range::build_aux_columns
AuxColumnLenShort(t) == Length(t) - NUM_RAND_ROWS
AuxColumnLen(t) == Length(t)

\* lines 169-170: the coin of build_aux_segment is seeded from the program hash
AuxSeedNext(t) == t.program_hash + 1
AuxSeed(t) == t.program_hash

\* build_aux_segment, lines 151-170: the caller passes its own list of segments (and
\* will push the result onto it) or an empty list
BuildAuxSegment(b) ==
    /\ pc[b] = "built"
    /\ aux[b].state = "idle"
    /\ \E own \in BOOLEAN, alpha \in Challenges :
        LET arg == IF own THEN aux_segments[b] ELSE <<>> IN
        IF BuildsSegment(arg)
        THEN /\ aux' = [aux EXCEPT ![b] =
                    [state |-> "inject",
                     own |-> own,
                     columns |-> BuildAuxColumns(AuxColumnLen(et[b]),
                                     et[b].aux_trace_hints.range, alpha,
                                     et[b].main_trace[V_COL_IDX]),
                     alpha |-> alpha,
                     rng |-> RandomCoinNew(AuxSeed(et[b])),
                     loop |-> [i |-> AuxFirstRandRow(et[b]), c |-> 1],
                     draws |-> <<>>]]
             /\ UNCHANGED aux_ret
        ELSE /\ aux_ret' = [aux_ret EXCEPT ![b] = [passed |-> Len(arg), kind |-> "None"]]
             /\ UNCHANGED aux
    /\ UNCHANGED <<proc, pc, rng, trace_len, trace, hints, loop, draws, et, panic,
                   materialized, aux_segments, frame>>

\* build_aux_segment, lines 171-175: one execution of line 173
AuxInjectRandom(b) ==
    /\ pc[b] = "built"
    /\ aux[b].state = "inject"
    /\ aux[b].loop.i < Length(et[b])
    /\ \E ok \in BOOLEAN :
        LET res == Draw(aux[b].rng, ok)
            got == Expect(res)
            entry == [n |-> aux[b].rng.counter, i |-> aux[b].loop.i, c |-> aux[b].loop.c,
                      ok |-> res.ok, value |-> got.value]
        IN
        IF got.panics
        THEN \* the panic unwinds through the caller
             /\ Abort(b, "failed to draw a random value")
             /\ aux' = [aux EXCEPT ![b] = NoAux]
             /\ aux_ret' = [aux_ret EXCEPT ![b] = NONE]
             /\ aux_segments' = [aux_segments EXCEPT ![b] = <<>>]
             /\ frame' = [frame EXCEPT ![b] = NoFrame]
             /\ UNCHANGED <<proc, trace_len, draws, et, materialized>>
        ELSE /\ aux' = [aux EXCEPT
                    ![b].columns[aux[b].loop.c][aux[b].loop.i] = got.value,
                    ![b].rng = CoinAfterDraw(@),
                    ![b].draws = Append(@, entry),
                    ![b].loop = NextCell(@, Len(aux[b].columns))]
             /\ UNCHANGED <<proc, pc, rng, trace_len, trace, hints, loop, draws, et, panic,
                            materialized, aux_ret, aux_segments, frame>>

\* build_aux_segment, line 177: Some(Matrix::new(aux_columns))
AuxReturn(b) ==
    /\ pc[b] = "built"
    /\ aux[b].state = "inject"
    /\ aux[b].loop.i >= Length(et[b])
    /\ aux_ret' = [aux_ret EXCEPT ![b] =
                    [passed |-> 0, kind |-> "Some", matrix |-> aux[b].columns,
                     draws |-> aux[b].draws, alpha |-> aux[b].alpha]]
    /\ aux_segments' = [aux_segments EXCEPT ![b] =
                            IF aux[b].own THEN Append(@, aux[b].columns) ELSE @]
    /\ aux' = [aux EXCEPT ![b] = NoAux]
    /\ UNCHANGED <<proc, pc, rng, trace_len, trace, hints, loop, draws, et, panic,
                   materialized, frame>>

\* -------------------------------------------------- Trace::read_main_frame
\* line 181
NextRowIdxNoWrap(row_idx, len) == row_idx + 1
NextRowIdx(row_idx, len) == (row_idx + 1) % len

\* read_main_frame, lines 180-185, for a row index in [0, length)
ReadMainFrame(b) ==
    /\ pc[b] = "built"
    /\ aux[b].state = "idle"
    /\ \E row_idx \in 0 .. (Length(et[b]) - 1) :
        LET next_row_idx == NextRowIdx(row_idx, Length(et[b])) IN
        IF RowInBounds(et[b].main_trace, row_idx)
              /\ RowInBounds(et[b].main_trace, next_row_idx)
        THEN /\ frame' = [frame EXCEPT ![b] =
                    [row_idx |-> row_idx,
                     current |-> ReadRowInto(et[b].main_trace, row_idx),
                     next |-> ReadRowInto(et[b].main_trace, next_row_idx)]]
             /\ UNCHANGED <<proc, pc, rng, trace_len, trace, hints, loop, draws, et, panic,
                            materialized, aux, aux_ret, aux_segments>>
        ELSE /\ Abort(b, "row index out of bounds")
             /\ frame' = [frame EXCEPT ![b] = NoFrame]
             /\ UNCHANGED <<proc, trace_len, draws, et, materialized, aux, aux_ret,
                            aux_segments>>

Next ==
    \/ \E b \in Builds : New(b) /\ UNCHANGED <<sponge, fragment>>
    \/ \E b \in Builds : AssertStepLengths(b) /\ UNCHANGED <<sponge, fragment>>
    \/ \E b \in Builds : ComputeTraceLen(b) /\ UNCHANGED <<sponge, fragment>>
    \/ \E b \in Builds : IntoTraces(b) /\ UNCHANGED <<sponge, fragment>>
    \/ \E b \in Builds : InjectRandom(b) /\ UNCHANGED <<sponge, fragment>>
    \/ \E b \in Builds : FinishTrace(b) /\ UNCHANGED <<sponge, fragment>>
    \/ \E b \in Builds : BuildAuxSegment(b) /\ UNCHANGED <<sponge, fragment>>
    \/ \E b \in Builds : AuxInjectRandom(b) /\ UNCHANGED <<sponge, fragment>>
    \/ \E b \in Builds : AuxReturn(b) /\ UNCHANGED <<sponge, fragment>>
    \/ \E b \in Builds : ReadMainFrame(b) /\ UNCHANGED <<sponge, fragment>>

Spec == Init /\ [][Next]_vars

\* Two independent builds: two calls of ExecutionTrace::new, each on its own Process
\* with consistent step lengths, interleaved in any order.
PairProcesses ==
    {p \in Processes : /\ p.system = p.clk /\ p.decoder = p.clk /\ p.stack = p.clk
                       /\ p.range = 0 /\ p.aux_table \in {0, MaxLen}}

InitPair ==
    /\ InitWith({1, 2}, PairProcesses)
    /\ sponge = NoSponge
    /\ fragment = NoFragment

NextPair ==
    \/ \E b \in Builds : New(b) /\ UNCHANGED <<sponge, fragment>>
    \/ \E b \in Builds : AssertStepLengths(b) /\ UNCHANGED <<sponge, fragment>>
    \/ \E b \in Builds : ComputeTraceLen(b) /\ UNCHANGED <<sponge, fragment>>
    \/ \E b \in Builds : IntoTraces(b) /\ UNCHANGED <<sponge, fragment>>
    \/ \E b \in Builds : InjectRandom(b) /\ UNCHANGED <<sponge, fragment>>
    \/ \E b \in Builds : FinishTrace(b) /\ UNCHANGED <<sponge, fragment>>

SpecPair == InitPair /\ [][NextPair]_vars

\* ============================================================ sponge
\* src/utils/sponge.rs: the round function of the sponge over the 128-bit field
\* (winterfell f128::BaseElement, modulus 2^128 - 45 * 2^40 + 1).  A field element
\* is kept as NUM_LIMBS limbs in base LIMB, least significant first, so that every
\* product of limbs stays within the integers TLC computes with.  A state of the
\* sponge is a tuple of STATE_WIDTH elements; slot i of the source is index i + 1.

STATE_WIDTH == 4
NUM_ROUNDS == 16
LIMB == 1000
NUM_LIMBS == 13

\* a number written as 13 decimal groups of three digits, most significant first
FromDecimal(g) ==
    <<g[13], g[12], g[11], g[10], g[9], g[8], g[7], g[6], g[5], g[4], g[3], g[2], g[1]>>

\* a number below LIMB
FromInt(n) == <<n, 0, 0, 0, 0, 0, 0, 0, 0, 0, 0, 0, 0>>

\* 340282366920938463463374557953744961537
MODULUS == FromDecimal(<<340, 282, 366, 920, 938, 463, 463, 374, 557, 953, 744, 961, 537>>)
\* the two leading limbs of the modulus
MODULUS_TOP == MODULUS[13] * LIMB + MODULUS[12]

ZERO == FromInt(0)
ONE == FromInt(1)

\* F(v) with v computed once, whatever the number of times F uses its argument
Once(v, F(_)) == CHOOSE out \in {F(x) : x \in {v}} : TRUE

\* limb k of a number of NUM_LIMBS limbs read as one of NUM_LIMBS + 1 limbs
Limb(a, k) == IF k <= NUM_LIMBS THEN a[k] ELSE 0

RECURSIVE CarryOver(_, _, _, _)
\* limbs lo .. hi of v, of any sign and size, with the carry c into limb lo ->
\* <<those limbs brought into 0 .. LIMB-1, the carry out of limb hi>>
CarryOver(v, lo, hi, c) ==
    IF lo = hi
    THEN Once(v[lo] + c, LAMBDA s : <<<<s % LIMB>>, (s - (s % LIMB)) \div LIMB>>)
    ELSE Once(CarryOver(v, lo, (lo + hi) \div 2, c), LAMBDA low :
            Once(CarryOver(v, (lo + hi) \div 2 + 1, hi, low[2]), LAMBDA high :
                <<low[1] \o high[1], high[2]>>))

\* NUM_LIMBS + 1 limbs of any sign and size -> limbs in 0 .. LIMB-1 (the last limb
\* keeps the rest)
Normalize(v) ==
    Once(CarryOver(v, 1, NUM_LIMBS, 0), LAMBDA n : Append(n[1], v[NUM_LIMBS + 1] + n[2]))

\* a >= b for two numbers of up to NUM_LIMBS + 1 limbs: no limb of a is below b's
\* with all the limbs above it equal
Ge(a, b) ==
    ~ \E k \in 1 .. (NUM_LIMBS + 1) :
        /\ Limb(a, k) < Limb(b, k)
        /\ \A j \in (k + 1) .. (NUM_LIMBS + 1) : Limb(a, j) = Limb(b, j)

RECURSIVE Reduce(_)
\* a number of NUM_LIMBS + 1 limbs, below a few multiples of the modulus -> its residue
Reduce(v) ==
    IF Ge(v, MODULUS)
    THEN Once(Normalize([k \in 1 .. (NUM_LIMBS + 1) |-> v[k] - Limb(MODULUS, k)]),
              LAMBDA d : Reduce(d))
    ELSE SubSeq(v, 1, NUM_LIMBS)

\* BaseElement addition
FAdd(a, b) ==
    Once(a, LAMBDA x : Once(b, LAMBDA y :
        Once(Normalize([k \in 1 .. (NUM_LIMBS + 1) |-> Limb(x, k) + Limb(y, k)]),
             LAMBDA sum : Reduce(sum))))

\* (r * LIMB + a * d) mod MODULUS for residues r, a and one limb d: the quotient is
\* estimated from the leading limbs (never above the true quotient)
MulStep(r, a, d) ==
    LET t(k) == (IF k >= 2 THEN r[k - 1] ELSE 0) + Limb(a, k) * d
    IN Once((t(14) * LIMB * LIMB + t(13) * LIMB + t(12)) \div (MODULUS_TOP + 1), LAMBDA q :
         Once(Normalize([k \in 1 .. (NUM_LIMBS + 1) |-> t(k) - q * Limb(MODULUS, k)]),
              LAMBDA rest : Reduce(rest)))

RECURSIVE MulOver(_, _, _, _, _)
\* r taken through the limbs hi .. lo of b, from the most significant one down
MulOver(a, b, hi, lo, r) ==
    IF hi = lo THEN MulStep(r, a, b[hi])
    ELSE Once(MulOver(a, b, hi, (hi + lo) \div 2 + 1, r), LAMBDA r2 :
            MulOver(a, b, (hi + lo) \div 2, lo, r2))

\* BaseElement multiplication
FMul(a, b) == Once(a, LAMBDA x : Once(b, LAMBDA y : MulOver(x, y, NUM_LIMBS, 1, ZERO)))

RECURSIVE HalfFrom(_, _, _)
HalfFrom(v, k, rem) ==
    IF k = 0 THEN <<>>
    ELSE Once(v[k] + LIMB * rem, LAMBDA cur :
            Append(HalfFrom(v, k - 1, cur % 2), cur \div 2))

\* v >> 1
Half(v) == HalfFrom(v, NUM_LIMBS, 0)

\* the width of a power, a u128
POWER_BITS == 128

\* p = <<v, bits>>: the lowest binary digit of v moved to the end of bits, while v is
\* not zero
BitsStep(p) == IF p[1] = ZERO THEN p ELSE <<Half(p[1]), Append(p[2], p[1][1] % 2)>>

RECURSIVE BitsOver(_, _)
\* n times BitsStep
BitsOver(p, n) ==
    IF n = 0 THEN p
    ELSE IF n = 1 THEN BitsStep(p)
    ELSE Once(BitsOver(p, n \div 2), LAMBDA q : BitsOver(q, n - (n \div 2)))

\* the binary digits of v, least significant first, up to its highest set bit
BitsOf(v) == BitsOver(<<v, <<>>>>, POWER_BITS)[2]

\* one turn of the loop of BaseElement::exp on p = <<r, b>>: r *= b if the bit is
\* set, then b = b * b
ExpStep(p, bit) == <<IF bit = 1 THEN FMul(p[1], p[2]) ELSE p[1], FMul(p[2], p[2])>>

RECURSIVE ExpOver(_, _, _, _)
\* the turns for bits lo .. hi, in that order
ExpOver(p, bits, lo, hi) ==
    IF lo > hi THEN p
    ELSE IF lo = hi THEN ExpStep(p, bits[lo])
    ELSE Once(ExpOver(p, bits, lo, (lo + hi) \div 2), LAMBDA q :
            ExpOver(q, bits, (lo + hi) \div 2 + 1, hi))

\* BaseElement::exp: square and multiply over the bits of the power, from the least
\* significant one
FExp(b, bits) == Once(b, LAMBDA x : ExpOver(<<ONE, x>>, bits, 1, Len(bits))[1])

ALPHA == 3
\* 226854911280625642308916371969163307691
INV_ALPHA == FromDecimal(<<226, 854, 911, 280, 625, 642, 308, 916, 371, 969, 163, 307, 691>>)
ALPHA_BITS == BitsOf(FromInt(ALPHA))
INV_ALPHA_BITS == BitsOf(INV_ALPHA)


\* the table MDS, row by row: entry i * STATE_WIDTH + j of the source is index
\* i * STATE_WIDTH + j + 1
MDS ==
    <<
      FromDecimal(<<315, 189, 521, 614, 69, 403, 867, 817, 270, 152, 32, 75, 784>>),
      FromDecimal(<<10, 737, 242, 274, 749, 505, 456, 268, 20, 883, 296, 531, 251>>),
      FromDecimal(<<164, 166, 492, 670, 388, 427, 786, 346, 110, 319, 108, 935, 134>>),
      FromDecimal(<<282, 318, 813, 916, 891, 806, 489, 21, 925, 524, 31, 494, 414>>),
      FromDecimal(<<339, 659, 984, 245, 804, 546, 554, 434, 478, 921, 876, 908, 973>>),
      FromDecimal(<<97, 319, 381, 58, 524, 916, 656, 0, 376, 979, 320, 858, 814>>),
      FromDecimal(<<141, 17, 807, 671, 871, 944, 240, 242, 749, 183, 803, 53, 11>>),
      FromDecimal(<<271, 669, 633, 517, 564, 511, 702, 965, 675, 947, 905, 678, 154>>),
      FromDecimal(<<330, 29, 911, 818, 464, 578, 106, 380, 298, 339, 390, 343, 164>>),
      FromDecimal(<<37, 351, 365, 266, 361, 901, 988, 170, 671, 462, 637, 236, 976>>),
      FromDecimal(<<260, 386, 862, 860, 725, 98, 262, 319, 886, 102, 680, 637, 202>>),
      FromDecimal(<<161, 805, 458, 319, 902, 660, 573, 511, 17, 706, 877, 187, 889>>),
      FromDecimal(<<220, 775, 330, 812, 333, 365, 987, 157, 544, 144, 955, 631, 442>>),
      FromDecimal(<<172, 992, 909, 845, 374, 20, 745, 323, 861, 886, 602, 514, 703>>),
      FromDecimal(<<8, 447, 293, 670, 850, 292, 346, 208, 742, 365, 584, 924, 315>>),
      FromDecimal(<<276, 315, 4, 99, 450, 287, 580, 88, 164, 954, 743, 181, 255>>)
    >>

INV_MDS ==
    <<
      FromDecimal(<<212, 15, 899, 302, 823, 985, 314, 659, 753, 132, 599, 968, 692>>),
      FromDecimal(<<222, 79, 945, 358, 547, 787, 481, 366, 483, 464, 725, 880, 498>>),
      FromDecimal(<<313, 947, 36, 552, 775, 452, 548, 888, 741, 999, 726, 656, 951>>),
      FromDecimal(<<94, 528, 877, 516, 599, 685, 906, 969, 597, 450, 601, 957, 552>>),
      FromDecimal(<<201, 841, 258, 819, 571, 375, 352, 239, 737, 215, 387, 725, 848>>),
      FromDecimal(<<42, 276, 963, 631, 701, 875, 238, 524, 357, 392, 500, 799, 145>>),
      FromDecimal(<<332, 890, 116, 61, 360, 870, 847, 41, 499, 810, 748, 569, 92>>),
      FromDecimal(<<3, 939, 991, 425, 276, 748, 394, 854, 935, 956, 419, 873, 430>>),
      FromDecimal(<<239, 100, 689, 228, 321, 601, 709, 623, 770, 733, 501, 932, 352>>),
      FromDecimal(<<178, 946, 314, 809, 288, 623, 489, 527, 367, 841, 505, 752, 988>>),
      FromDecimal(<<270, 128, 331, 8, 291, 756, 180, 543, 638, 308, 504, 150, 653>>),
      FromDecimal(<<315, 661, 2, 876, 81, 483, 102, 676, 309, 387, 501, 623, 498>>),
      FromDecimal(<<298, 377, 528, 588, 644, 746, 682, 709, 801, 175, 581, 650, 901>>),
      FromDecimal(<<114, 666, 605, 273, 67, 789, 843, 953, 739, 274, 63, 213, 369>>),
      FromDecimal(<<279, 54, 651, 722, 812, 961, 169, 783, 459, 501, 878, 203, 576>>),
      FromDecimal(<<308, 67, 640, 269, 163, 823, 896, 854, 342, 618, 197, 51, 588>>)
    >>

\* ARK[r][c] of the source is ARK[r + 1][c + 1]
ARK ==
    <<
      <<
        FromDecimal(<<73, 742, 662, 193, 393, 629, 993, 182, 617, 210, 984, 534, 396>>),
        FromDecimal(<<190, 338, 348, 930, 91, 47, 298, 74, 165, 559, 397, 264, 378>>),
        FromDecimal(<<135, 862, 987, 622, 353, 414, 661, 673, 448, 620, 33, 990, 934>>),
        FromDecimal(<<14, 395, 595, 548, 581, 550, 72, 136, 442, 264, 588, 359, 269>>),
        FromDecimal(<<178, 527, 953, 570, 703, 982, 986, 577, 498, 890, 483, 203, 23>>),
        FromDecimal(<<89, 333, 775, 516, 890, 774, 827, 962, 437, 297, 764, 936, 547>>),
        FromDecimal(<<60, 517, 382, 118, 2, 481, 956, 993, 39, 132, 628, 798, 754>>),
        FromDecimal(<<300, 207, 915, 911, 51, 460, 908, 298, 688, 414, 919, 921, 93>>),
        FromDecimal(<<287, 288, 998, 844, 960, 276, 649, 854, 461, 883, 880, 913, 666>>),
        FromDecimal(<<4, 363, 347, 423, 120, 340, 347, 647, 334, 422, 662, 129, 280>>),
        FromDecimal(<<169, 61, 616, 865, 327, 291, 5, 64, 664, 270, 275, 836, 534>>),
        FromDecimal(<<55, 63, 854, 82, 489, 962, 294, 956, 447, 144, 901, 184, 837>>),
        FromDecimal(<<48, 405, 253, 30, 503, 584, 410, 290, 697, 712, 994, 785, 780>>),
        FromDecimal(<<26, 236, 509, 279, 945, 457, 822, 369, 793, 146, 288, 866, 403>>),
        FromDecimal(<<8, 168, 599, 451, 814, 692, 118, 441, 936, 734, 435, 571, 667>>),
        FromDecimal(<<315, 851, 285, 839, 738, 308, 287, 329, 276, 161, 693, 313, 425>>)
      >>,
      <<
        FromDecimal(<<170, 640, 173, 476, 284, 978, 302, 806, 154, 399, 958, 141, 555>>),
        FromDecimal(<<225, 556, 280, 578, 98, 393, 163, 620, 719, 229, 418, 290, 860>>),
        FromDecimal(<<43, 697, 512, 293, 48, 123, 577, 843, 997, 788, 308, 773, 455>>),
        FromDecimal(<<334, 227, 22, 756, 371, 766, 478, 760, 448, 625, 337, 379, 424>>),
        FromDecimal(<<188, 323, 96, 432, 976, 273, 265, 52, 369, 652, 285, 99, 186>>),
        FromDecimal(<<23, 833, 44, 413, 239, 455, 428, 827, 669, 432, 473, 543, 240>>),
        FromDecimal(<<258, 1, 239, 441, 974, 384, 951, 891, 541, 79, 242, 930, 440>>),
        FromDecimal(<<219, 177, 966, 622, 498, 447, 376, 602, 481, 443, 936, 826, 442>>),
        FromDecimal(<<294, 241, 649, 61, 853, 322, 876, 594, 266, 104, 693, 176, 711>>),
        FromDecimal(<<179, 443, 458, 614, 881, 887, 600, 494, 128, 53, 111, 694, 648>>),
        FromDecimal(<<171, 502, 7, 855, 719, 14, 10, 389, 694, 111, 716, 628, 578>>),
        FromDecimal(<<122, 453, 723, 578, 185, 362, 799, 857, 252, 115, 182, 955, 415>>),
        FromDecimal(<<97, 63, 282, 200, 318, 501, 142, 854, 934, 314, 343, 169, 49>>),
        FromDecimal(<<154, 737, 674, 33, 120, 948, 700, 227, 987, 365, 296, 907, 637>>),
        FromDecimal(<<118, 224, 404, 177, 203, 231, 307, 646, 344, 308, 524, 770, 691>>),
        FromDecimal(<<67, 833, 38, 363, 599, 207, 475, 373, 40, 930, 824, 843, 19>>)
      >>,
      <<
        FromDecimal(<<158, 538, 539, 401, 72, 639, 862, 99, 558, 319, 550, 76, 686>>),
        FromDecimal(<<289, 278, 996, 656, 706, 117, 461, 857, 789, 813, 498, 821, 934>>),
        FromDecimal(<<158, 907, 965, 876, 520, 949, 616, 863, 328, 303, 176, 330, 572>>),
        FromDecimal(<<58, 496, 669, 788, 416, 466, 40, 38, 464, 653, 643, 977, 917>>),
        FromDecimal(<<126, 0, 924, 558, 481, 152, 83, 98, 962, 591, 383, 883, 438>>),
        FromDecimal(<<32, 424, 193, 637, 360, 906, 576, 442, 956, 294, 452, 323, 288>>),
        FromDecimal(<<337, 725, 857, 612, 570, 850, 944, 445, 340, 416, 668, 827, 103>>),
        FromDecimal(<<172, 66, 229, 584, 406, 173, 63, 202, 914, 726, 937, 339, 958>>),
        FromDecimal(<<138, 628, 264, 101, 912, 804, 813, 977, 210, 615, 833, 233, 437>>),
        FromDecimal(<<50, 18, 412, 546, 799, 23, 168, 899, 671, 792, 323, 407, 156>>),
        FromDecimal(<<16, 989, 575, 615, 175, 240, 495, 557, 720, 305, 287, 640, 349>>),
        FromDecimal(<<69, 216, 162, 599, 706, 897, 556, 278, 776, 240, 900, 218, 374>>),
        FromDecimal(<<41, 491, 163, 124, 497, 803, 255, 407, 972, 80, 635, 378, 902>>),
        FromDecimal(<<297, 928, 660, 776, 980, 173, 370, 496, 618, 733, 852, 490, 961>>),
        FromDecimal(<<233, 141, 108, 584, 353, 453, 34, 2, 234, 415, 979, 233, 911>>),
        FromDecimal(<<193, 135, 973, 972, 933, 518, 870, 828, 237, 886, 863, 798, 21>>)
      >>,
      <<
        FromDecimal(<<2, 818, 165, 229, 115, 14, 774, 32, 882, 127, 170, 13, 258>>),
        FromDecimal(<<11, 153, 792, 801, 390, 339, 798, 262, 783, 617, 7, 369, 172>>),
        FromDecimal(<<138, 405, 289, 600, 908, 304, 802, 269, 329, 797, 84, 135, 857>>),
        FromDecimal(<<249, 369, 722, 351, 358, 137, 898, 587, 699, 909, 312, 963, 803>>),
        FromDecimal(<<263, 157, 893, 448, 998, 999, 306, 850, 171, 729, 945, 394, 432>>),
        FromDecimal(<<43, 421, 407, 22, 492, 486, 112, 194, 101, 527, 865, 465, 264>>),
        FromDecimal(<<323, 117, 3, 802, 246, 814, 764, 810, 890, 58, 143, 344, 905>>),
        FromDecimal(<<267, 697, 496, 976, 874, 759, 865, 163, 284, 761, 384, 997, 437>>),
        FromDecimal(<<116, 358, 578, 177, 298, 194, 933, 445, 426, 886, 59, 838, 431>>),
        FromDecimal(<<339, 223, 760, 157, 195, 739, 332, 845, 857, 285, 8, 200, 423>>),
        FromDecimal(<<185, 875, 552, 438, 512, 768, 131, 393, 810, 27, 777, 987, 752>>),
        FromDecimal(<<228, 752, 352, 631, 998, 151, 610, 775, 212, 885, 524, 543, 283>>),
        FromDecimal(<<96, 675, 618, 862, 527, 967, 726, 114, 378, 655, 626, 650, 641>>),
        FromDecimal(<<253, 746, 202, 714, 926, 890, 236, 889, 780, 444, 552, 427, 226>>),
        FromDecimal(<<61, 911, 644, 581, 679, 112, 386, 499, 312, 30, 413, 349, 74>>),
        FromDecimal(<<196, 910, 153, 233, 132, 861, 881, 308, 509, 456, 401, 645, 140>>)
      >>,
      <<
        FromDecimal(<<82, 429, 262, 549, 299, 942, 290, 847, 183, 493, 4, 485, 261>>),
        FromDecimal(<<53, 265, 540, 956, 785, 335, 308, 970, 867, 946, 461, 681, 393>>),
        FromDecimal(<<274, 633, 988, 293, 91, 71, 340, 356, 635, 555, 807, 179, 190>>),
        FromDecimal(<<189, 653, 807, 408, 664, 613, 44, 858, 917, 26, 657, 980, 625>>),
        FromDecimal(<<122, 1, 776, 241, 989, 922, 16, 768, 881, 111, 33, 630, 21>>),
        FromDecimal(<<62, 33, 181, 748, 425, 106, 711, 292, 370, 817, 969, 454, 146>>),
        FromDecimal(<<151, 495, 710, 594, 170, 316, 99, 539, 790, 651, 453, 416, 361>>),
        FromDecimal(<<242, 872, 884, 766, 759, 335, 785, 324, 964, 49, 644, 229, 294>>),
        FromDecimal(<<279, 904, 213, 525, 927, 510, 712, 810, 228, 623, 902, 377, 237>>),
        FromDecimal(<<78, 65, 99, 645, 540, 746, 831, 460, 653, 583, 134, 588, 104>>),
        FromDecimal(<<36, 224, 510, 31, 696, 203, 479, 366, 212, 612, 960, 872, 957>>),
        FromDecimal(<<109, 862, 755, 442, 48, 596, 627, 938, 134, 642, 975, 399, 668>>),
        FromDecimal(<<331, 958, 862, 978, 706, 756, 999, 748, 973, 740, 992, 156, 929>>),
        FromDecimal(<<81, 691, 558, 114, 273, 932, 307, 586, 556, 761, 543, 100, 315>>),
        FromDecimal(<<12, 234, 569, 840, 122, 312, 404, 615, 178, 877, 814, 773, 825>>),
        FromDecimal(<<166, 2, 344, 81, 927, 954, 304, 873, 771, 936, 867, 289, 851>>)
      >>,
      <<
        FromDecimal(<<326, 468, 515, 245, 13, 538, 774, 703, 881, 972, 225, 680, 443>>),
        FromDecimal(<<209, 40, 28, 248, 304, 238, 735, 923, 683, 513, 240, 525, 194>>),
        FromDecimal(<<234, 470, 815, 157, 983, 4, 947, 611, 441, 850, 27, 217, 492>>),
        FromDecimal(<<311, 182, 552, 853, 825, 261, 47, 305, 944, 842, 224, 924, 215>>),
        FromDecimal(<<25, 509, 259, 982, 13, 669, 682, 461, 356, 932, 775, 370, 545>>),
        FromDecimal(<<77, 86, 595, 49, 850, 596, 660, 690, 999, 278, 719, 11, 720>>),
        FromDecimal(<<7, 640, 791, 703, 119, 561, 504, 971, 867, 271, 87, 353, 186>>),
        FromDecimal(<<170, 24, 582, 242, 541, 755, 392, 979, 256, 646, 565, 617, 273>>),
        FromDecimal(<<153, 964, 862, 116, 746, 563, 988, 492, 365, 899, 737, 226, 989>>),
        FromDecimal(<<37, 163, 237, 225, 742, 447, 359, 704, 121, 711, 857, 363, 416>>),
        FromDecimal(<<108, 165, 142, 884, 901, 978, 856, 319, 583, 750, 672, 324, 489>>),
        FromDecimal(<<69, 476, 260, 396, 969, 790, 693, 146, 402, 21, 744, 933, 499>>),
        FromDecimal(<<45, 955, 200, 56, 324, 872, 841, 369, 110, 391, 855, 73, 949>>),
        FromDecimal(<<261, 286, 87, 759, 526, 359, 216, 271, 155, 361, 18, 330, 507>>),
        FromDecimal(<<321, 756, 280, 164, 272, 289, 841, 871, 40, 803, 703, 440, 350>>),
        FromDecimal(<<334, 905, 318, 181, 122, 708, 43, 147, 970, 432, 770, 442, 813>>)
      >>,
      <<
        FromDecimal(<<310, 538, 827, 479, 436, 149, 892, 724, 250, 590, 698, 914, 519>>),
        FromDecimal(<<221, 96, 166, 77, 280, 180, 974, 764, 42, 888, 991, 644, 280>>),
        FromDecimal(<<274, 604, 860, 873, 273, 636, 237, 81, 114, 376, 77, 113, 475>>),
        FromDecimal(<<230, 609, 671, 293, 877, 243, 511, 889, 6, 223, 284, 127, 479>>),
        FromDecimal(<<59, 235, 259, 390, 239, 124, 162, 891, 762, 278, 360, 245, 334>>),
        FromDecimal(<<129, 877, 116, 445, 533, 126, 989, 528, 570, 413, 807, 277, 693>>),
        FromDecimal(<<250, 107, 916, 917, 535, 224, 528, 378, 129, 994, 943, 394, 294>>),
        FromDecimal(<<232, 74, 846, 252, 364, 869, 196, 809, 445, 831, 737, 773, 796>>),
        FromDecimal(<<298, 530, 663, 250, 990, 395, 227, 144, 225, 232, 608, 384, 365>>),
        FromDecimal(<<265, 168, 486, 75, 436, 613, 449, 458, 788, 630, 803, 272, 512>>),
        FromDecimal(<<166, 545, 598, 284, 411, 242, 433, 605, 578, 379, 265, 360, 252>>),
        FromDecimal(<<102, 835, 474, 498, 154, 50, 313, 290, 986, 853, 294, 842, 906>>),
        FromDecimal(<<189, 445, 283, 838, 85, 809, 52, 254, 29, 811, 407, 633, 258>>),
        FromDecimal(<<302, 719, 82, 300, 742, 526, 890, 675, 313, 445, 319, 567, 341>>),
        FromDecimal(<<96, 37, 481, 352, 786, 813, 748, 421, 760, 769, 380, 383, 926>>),
        FromDecimal(<<214, 406, 10, 671, 246, 827, 947, 835, 794, 343, 33, 790, 693>>)
      >>,
      <<
        FromDecimal(<<230, 635, 877, 78, 223, 923, 40, 415, 38, 811, 686, 445, 73>>),
        FromDecimal(<<293, 27, 53, 537, 479, 76, 557, 105, 9, 345, 927, 645, 442>>),
        FromDecimal(<<118, 114, 82, 982, 223, 329, 826, 45, 602, 989, 947, 510, 129>>),
        FromDecimal(<<185, 89, 342, 855, 265, 166, 563, 915, 858, 25, 522, 983, 409>>),
        FromDecimal(<<300, 544, 292, 992, 993, 952, 360, 719, 0, 252, 205, 715, 76>>),
        FromDecimal(<<284, 751, 400, 376, 525, 550, 861, 233, 17, 183, 497, 639, 371>>),
        FromDecimal(<<62, 365, 388, 436, 267, 647, 533, 64, 120, 634, 464, 266, 870>>),
        FromDecimal(<<243, 579, 355, 10, 18, 669, 877, 160, 932, 197, 352, 17, 974>>),
        FromDecimal(<<93, 28, 746, 118, 909, 893, 246, 237, 533, 845, 189, 74, 2>>),
        FromDecimal(<<161, 426, 242, 690, 584, 918, 941, 198, 733, 450, 953, 748, 769>>),
        FromDecimal(<<208, 632, 865, 147, 351, 209, 340, 449, 219, 82, 125, 897, 333>>),
        FromDecimal(<<185, 941, 35, 889, 835, 671, 403, 97, 747, 661, 105, 595, 79>>),
        FromDecimal(<<182, 846, 621, 472, 767, 704, 751, 329, 603, 405, 195, 985, 261>>),
        FromDecimal(<<162, 892, 536, 327, 655, 189, 685, 235, 410, 342, 890, 574, 896>>),
        FromDecimal(<<101, 396, 399, 19, 525, 872, 501, 663, 112, 616, 210, 307, 683>>),
        FromDecimal(<<191, 90, 374, 127, 295, 994, 22, 314, 14, 407, 997, 806, 335>>)
      >>
    >>

\* add_constants, lines 33-37 (idx and offset as in the source, from 0)
add_constants(state, idx, offset) ==
    Once(state, LAMBDA s :
        <<FAdd(s[1], ARK[offset + 1][idx + 1]), FAdd(s[2], ARK[offset + 2][idx + 1]),
          FAdd(s[3], ARK[offset + 3][idx + 1]), FAdd(s[4], ARK[offset + 4][idx + 1])>>)

\* apply_sbox, lines 39-43
apply_sbox(state) ==
    Once(state, LAMBDA s :
        <<FExp(s[1], ALPHA_BITS), FExp(s[2], ALPHA_BITS),
          FExp(s[3], ALPHA_BITS), FExp(s[4], ALPHA_BITS)>>)

\* apply_inv_sbox, lines 45-50
apply_inv_sbox(state) ==
    Once(state, LAMBDA s :
        <<FExp(s[1], INV_ALPHA_BITS), FExp(s[2], INV_ALPHA_BITS),
          FExp(s[3], INV_ALPHA_BITS), FExp(s[4], INV_ALPHA_BITS)>>)

\* row i (from 1) of a STATE_WIDTH x STATE_WIDTH table times the state: the products
\* temp[j] summed onto ZERO in the order of j
RowTimesState(table, i, state) ==
    LET temp(j) == FMul(table[(i - 1) * STATE_WIDTH + j], state[j])
    IN FAdd(FAdd(FAdd(FAdd(ZERO, temp(1)), temp(2)), temp(3)), temp(4))

TimesState(table, state) ==
    Once(state, LAMBDA s :
        <<RowTimesState(table, 1, s), RowTimesState(table, 2, s),
          RowTimesState(table, 3, s), RowTimesState(table, 4, s)>>)

\* apply_mds, lines 52-65
apply_mds(state) == TimesState(MDS, state)

\* apply_inv_mds, lines 67-80
apply_inv_mds_with_mds(state) == TimesState(MDS, state)
apply_inv_mds(state) == TimesState(INV_MDS, state)

\* lines 24-25: state[0] += op_code; state[1] += op_value
inject_shifted(state, op_code, op_value) ==
    Once(state, LAMBDA s : <<FAdd(s[1], op_code), s[2], FAdd(s[3], op_value), s[4]>>)
inject(state, op_code, op_value) ==
    Once(state, LAMBDA s : <<FAdd(s[1], op_code), FAdd(s[2], op_value), s[3], s[4]>>)

\* apply_round, lines 10-31
apply_round(state, op_code, op_value, step) ==
    LET ark_idx == step % NUM_ROUNDS
        s1 == add_constants(state, ark_idx, 0)
        s2 == apply_sbox(s1)
        s3 == apply_mds(s2)
        s4 == inject(s3, op_code, op_value)
        s5 == add_constants(s4, ark_idx, STATE_WIDTH)
        s6 == apply_inv_sbox(s5)
    IN apply_mds(s6)

\* ------------------------------------------------- callers of the sponge
\* The functions of utils/sponge.rs are pure; they are applied here to states drawn
\* from bounded sets.  A caller either mixes a state with apply_mds and unmixes it
\* with apply_inv_mds, or calls apply_round twice on copies of one state, with two
\* step numbers and the same op_code and op_value.

NumSamples == 3
MaxStep == 1

\* MODULUS - 1
MINUS_ONE == FromDecimal(<<340, 282, 366, 920, 938, 463, 463, 374, 557, 953, 744, 961, 536>>)

SampleElements == <<ONE, MINUS_ONE, MDS[1], ZERO, INV_MDS[7]>>

Elements == {SampleElements[k] : k \in 1 .. NumSamples}

MdsInputs ==
    {[kind |-> "mds", pc |-> "start", input |-> <<a, b, c, d>>, state |-> <<a, b, c, d>>] :
        a \in Elements, b \in Elements, c \in Elements, d \in Elements}

RoundState == <<MDS[2], MINUS_ONE, ZERO, ONE>>

\* an op_code that adds nothing, and one that does
OpCodes == {ZERO, ONE}

RoundInput(c, s, s2) ==
    [kind |-> "round", calls |-> 0, input |-> RoundState,
     op_code |-> c, op_value |-> INV_MDS[3],
     step |-> <<s, s2>>, out |-> <<RoundState, RoundState>>]

\* the second step is the next one, or the one NUM_ROUNDS later
RoundInputs ==
    UNION {{RoundInput(c, s, s2) : c \in OpCodes, s2 \in {s + 1, s + NUM_ROUNDS}} :
              s \in 0 .. MaxStep}

InitSponge ==
    /\ InitWith({}, Processes)
    /\ sponge \in MdsInputs \cup RoundInputs
    /\ fragment = NoFragment

\* the caller runs apply_mds(&mut state)
ApplyMds ==
    /\ sponge.kind = "mds"
    /\ sponge.pc = "start"
    /\ sponge' = [sponge EXCEPT !.state = apply_mds(@), !.pc = "mixed"]
    /\ UNCHANGED <<trace_vars, fragment>>

\* the caller runs apply_inv_mds(&mut state)
ApplyInvMds ==
    /\ sponge.kind = "mds"
    /\ sponge.pc = "mixed"
    /\ sponge' = [sponge EXCEPT !.state = apply_inv_mds(@), !.pc = "unmixed"]
    /\ UNCHANGED <<trace_vars, fragment>>

\* the caller runs its next apply_round(&mut copy, op_code, op_value, step)
ApplyRound ==
    /\ sponge.kind = "round"
    /\ sponge.calls < 2
    /\ LET n == sponge.calls + 1 IN
       sponge' = [sponge EXCEPT
                    !.out[n] = apply_round(sponge.input, sponge.op_code, sponge.op_value,
                                           sponge.step[n]),
                    !.calls = n]
    /\ UNCHANGED <<trace_vars, fragment>>

NextSponge ==
    \/ ApplyMds
    \/ ApplyInvMds
    \/ ApplyRound

SpecSponge == InitSponge /\ [][NextSponge]_vars

\* ========================================================== trace fragment
\* TraceFragment, lines 192-238: a list of mutable views into column buffers its
\* caller owns.  A view is the part from .. to-1 of buffer buf.  The caller holds the
\* slices it may still pass: whole columns, and the rests push_column_slice returned
\* to it; a slice passed to push_column_slice is moved into the call.

NumColumns == 2
MaxColumnLen == 3
MaxPushes == 3

SliceLen(v) == v.to - v.from

WholeColumn(buf, n) == [buf |-> buf, from |-> 0, to |-> n]

\* column.split_at_mut(mid): panics if mid is past the end of the slice
SplitKeepsWhole(column, mid) ==
    [panics |-> mid > SliceLen(column),
     left |-> [column EXCEPT !.to = column.from + mid],
     right |-> column]
SplitAtMut(column, mid) ==
    [panics |-> mid > SliceLen(column),
     left |-> [column EXCEPT !.to = column.from + mid],
     right |-> [column EXCEPT !.from = column.from + mid]]

\* TraceFragment::new followed by nothing: no column yet; the caller holds NumColumns
\* column buffers of one length
InitFragment ==
    /\ InitWith({}, Processes)
    /\ sponge = NoSponge
    /\ \E n \in 1 .. MaxColumnLen :
         fragment = [kind |-> "fragment",
                     data |-> <<>>,
                     held |-> {WholeColumn(buf, n) : buf \in 1 .. NumColumns},
                     lens |-> <<>>,
                     panic |-> FALSE]

\* width(), lines 208-210
FragmentWidth(f) == Len(f.data)

\* len(), lines 213-215
FragmentLen(f) == SliceLen(f.data[1])

\* push_column_slice(column, len), lines 231-235, on a slice the caller holds; the
\* rest goes back to the caller
PushColumnSlice(column, len) ==
    /\ fragment.kind = "fragment"
    /\ ~fragment.panic
    /\ Len(fragment.data) < MaxPushes
    /\ column \in fragment.held
    /\ LET split == SplitAtMut(column, len) IN
       IF split.panics
       THEN fragment' = [fragment EXCEPT !.panic = TRUE, !.held = @ \ {column}]
       ELSE fragment' = [fragment EXCEPT
                            !.data = Append(@, split.left),
                            !.held = (@ \ {column}) \cup {split.right},
                            !.lens = Append(@, len)]
    /\ UNCHANGED <<trace_vars, sponge>>

NextFragment ==
    \E column \in fragment.held, len \in 0 .. (MaxColumnLen + 1) : PushColumnSlice(column, len)

SpecFragment == InitFragment /\ [][NextFragment]_vars

\* ================================================================ claims
MsgSystem == "inconsistent system trace lengths"
MsgDecoder == "inconsistent decoder trace length"
MsgStack == "inconsistent stack trace lengths"
MsgMinLen == "trace length must be at least"
MsgDraw == "failed to draw a random value"
MsgOutOfBounds == "row index out of bounds"

IsPowerOfTwo(n) == \E k \in 0 .. (MaxLen + 2) : n = 2 ^ k

\* the largest of the step count and the lengths of range checker and auxiliary table
LongestComponent(p) ==
    CHOOSE m \in {p.clk, p.range, p.aux_table} : \A x \in {p.clk, p.range, p.aux_table} : m >= x

StepLengthsAgree(p) == p.system = p.clk /\ p.decoder = p.clk /\ p.stack = p.clk

\* the build has left the given positions behind
Past(b, positions) == pc[b] \notin positions

\* the rows of a matrix that hold random values
TailRows(columns) == (NumRows(columns) - NUM_RAND_ROWS) .. (NumRows(columns) - 1)

\* C1: the trace assembled from partial traces whose step-driven lengths equal the
\* step count has a length (the same for every column) that is the smallest power of
\* two >= max(step count, range-checker length, auxiliary-table length) + NUM_RAND_ROWS.
C1_TraceLenSmallestPowerOfTwo ==
    \A b \in Builds :
        (et[b] # NONE /\ StepLengthsAgree(proc[b])) =>
            LET need == LongestComponent(proc[b]) + NUM_RAND_ROWS
                n == Length(et[b])
            IN /\ n = trace_len[b]
               /\ IsPowerOfTwo(n)
               /\ n >= need
               /\ \A m \in 1 .. (n - 1) : IsPowerOfTwo(m) => m < need
               /\ \A c \in 1 .. Len(et[b].main_trace) :
                    DOMAIN et[b].main_trace[c] = 0 .. (n - 1)

\* a trace whose length is set by the auxiliary table alone and is rounded up
C1_Witness ==
    \E b \in Builds :
        /\ et[b] # NONE
        /\ proc[b].aux_table = 2 /\ proc[b].clk < 2 /\ proc[b].range < 2
        /\ Length(et[b]) = 4

\* C2 as stated: when the padded power of two is below MIN_TRACE_LEN the assembly
\* carries on with MIN_TRACE_LEN as the trace length and does not fail.
C2_Original ==
    \A b \in Builds :
        ( /\ StepLengthsAgree(proc[b])
          /\ PaddedTraceLen(LongestComponent(proc[b])) < MIN_TRACE_LEN
          /\ Past(b, {"new", "assert_lens", "trace_len"}) ) =>
            /\ panic[b] # MsgMinLen
            /\ trace_len[b] = MIN_TRACE_LEN

\* C2 (amended): when the padded power of two is below MIN_TRACE_LEN the assembly
\* aborts with the failure "trace length must be at least ...", before any column
\* is materialized, and returns no trace.
C2_BelowMinimumAborts ==
    \A b \in Builds :
        ( /\ StepLengthsAgree(proc[b])
          /\ PaddedTraceLen(LongestComponent(proc[b])) < MIN_TRACE_LEN
          /\ Past(b, {"new", "assert_lens", "trace_len"}) ) =>
            /\ pc[b] = "panic"
            /\ panic[b] = MsgMinLen
            /\ materialized[b] = 0
            /\ et[b] = NONE

C2_Witness ==
    \E b \in Builds :
        /\ pc[b] = "panic" /\ panic[b] = MsgMinLen
        /\ PaddedTraceLen(LongestComponent(proc[b])) = 1

\* the messages of the step-driven components whose length differs from the step count
Offending(p) ==
    {m \in {MsgSystem, MsgDecoder, MsgStack} :
        \/ m = MsgSystem /\ p.system # p.clk
        \/ m = MsgDecoder /\ p.decoder # p.clk
        \/ m = MsgStack /\ p.stack # p.clk}

\* C3: once the length check is passed by, a build whose system, decoder or stack
\* length differs from clk has panicked with a message naming an offending
\* component, no column was materialized and no trace is returned; a build whose
\* three lengths equal clk has not panicked with any of these messages.
C3_StepLengthMismatchAborts ==
    \A b \in Builds :
        Past(b, {"new", "assert_lens"}) =>
            IF Offending(proc[b]) # {}
            THEN /\ pc[b] = "panic"
                 /\ panic[b] \in Offending(proc[b])
                 /\ materialized[b] = 0
                 /\ et[b] = NONE
            ELSE panic[b] \notin {MsgSystem, MsgDecoder, MsgStack}

\* only the decoder disagrees with the step count
C3_Witness ==
    \E b \in Builds :
        /\ pc[b] = "panic" /\ panic[b] = MsgDecoder
        /\ proc[b].system = proc[b].clk /\ proc[b].stack = proc[b].clk

\* the frame filled for a row index holds that row and its cyclic successor
FrameIsRowAndSuccessor(b) ==
    LET m == et[b].main_trace
        n == Length(et[b])
        i == frame[b].row_idx
        j == IF i = n - 1 THEN 0 ELSE i + 1
    IN /\ i \in 0 .. (n - 1)
       /\ frame[b].current = [c \in 1 .. Len(m) |-> m[c][i]]
       /\ frame[b].next = [c \in 1 .. Len(m) |-> m[c][j]]

\* C4: read_main_frame at a row index i in [0, length()) fills `current` with row i
\* and `next` with row i+1, or row 0 for i = length()-1, never panics on an
\* out-of-bounds row, and the step that fills the frame leaves the trace as it was.
C4_ReadMainFrameWraps ==
    /\ [](\A b \in Builds :
            /\ panic[b] # MsgOutOfBounds
            /\ frame[b] # NoFrame => FrameIsRowAndSuccessor(b))
    /\ [][\A b \in Builds : frame'[b] # frame[b] => et'[b] = et[b]]_vars

\* the frame of the last row of a trace of four rows: next is row 0
C4_Witness ==
    \E b \in Builds :
        /\ frame[b] # NoFrame
        /\ Length(et[b]) = 4
        /\ frame[b].row_idx = 3
        /\ frame[b].next = ReadRowInto(et[b].main_trace, 0)
        /\ frame[b].next # frame[b].current

\* C5: a build_aux_segment call returns a segment of at least one column exactly
\* when it was passed an empty list and None exactly when it was passed a non-empty
\* one; the caller that passes back what it got never holds more than one segment;
\* a call that returns None is a single step that builds nothing and does not panic.
C5_OneAuxSegment ==
    /\ [](\A b \in Builds :
            /\ Len(aux_segments[b]) <= 1
            /\ aux_ret[b] # NONE =>
                /\ (aux_ret[b].kind = "Some") <=> (aux_ret[b].passed = 0)
                /\ (aux_ret[b].kind = "None") <=> (aux_ret[b].passed > 0)
                /\ aux_ret[b].kind = "Some" => Len(aux_ret[b].matrix) >= 1)
    /\ [][\A b \in Builds :
            (aux_ret'[b] # aux_ret[b] /\ aux_ret'[b] # NONE /\ aux_ret'[b].kind = "None") =>
                /\ aux[b] = NoAux /\ aux'[b] = NoAux
                /\ aux_segments'[b] = aux_segments[b] /\ aux_segments[b] # <<>>
                /\ panic'[b] = NoPanic]_vars

\* the second call, passed the segment the first returned, returned None
C5_Witness ==
    \E b \in Builds :
        /\ Len(aux_segments[b]) = 1
        /\ aux_ret[b] # NONE
        /\ aux_ret[b].kind = "None" /\ aux_ret[b].passed = 1

\* C6 as stated: the layout of every built trace declares a main segment of
\* TRACE_WIDTH columns and one auxiliary segment of one column.
C6_Original ==
    \A b \in Builds :
        et[b] # NONE =>
            /\ et[b].layout.main_width = TRACE_WIDTH
            /\ et[b].layout.aux_widths = <<1>>

\* C6 (amended): the layout of every built trace declares a main segment of
\* TRACE_WIDTH columns and one auxiliary segment of two columns, built with one
\* random element.
C6_LayoutOneAuxSegmentOfTwoColumns ==
    \A b \in Builds :
        et[b] # NONE =>
            /\ et[b].layout.main_width = TRACE_WIDTH
            /\ Len(et[b].layout.aux_widths) = 1
            /\ et[b].layout.aux_widths[1] = 2
            /\ et[b].layout.aux_rands = <<1>>

C6_Witness ==
    \E b \in Builds : et[b] # NONE /\ pc[b] = "built" /\ et[b].layout.aux_widths = <<2>>

\* every tail cell of the matrix was written by one successful draw of the log, the
\* draws of the log are separate draws, and each wrote one cell
TailWrittenByLog(columns, log) ==
    /\ Len(log) = Len(columns) * NUM_RAND_ROWS
    /\ \A j \in 1 .. Len(log) :
        /\ log[j].n = j - 1
        /\ log[j].ok
        /\ log[j].c \in 1 .. Len(columns)
        /\ log[j].i \in TailRows(columns)
        /\ columns[log[j].c][log[j].i] = log[j].value
    /\ \A j, k \in 1 .. Len(log) :
        (log[j].c = log[k].c /\ log[j].i = log[k].i) => j = k
    /\ \A c \in 1 .. Len(columns) : \A i \in TailRows(columns) :
        \E j \in 1 .. Len(log) : log[j].c = c /\ log[j].i = i

\* C7: in a returned trace every cell of the last NUM_RAND_ROWS rows of every column
\* holds the result of its own draw: columns x NUM_RAND_ROWS draws were made, each
\* written to one cell, and every tail cell was overwritten.
C7_TailCellsDrawnSeparately ==
    \A b \in Builds :
        et[b] # NONE =>
            /\ TailWrittenByLog(et[b].main_trace, draws[b])
            /\ \A j \in 1 .. Len(draws[b]) :
                draws[b][j].value = DrawValue(et[b].program_hash, j - 1)

\* a built trace whose tail row differs from the padding in some column
C7_Witness ==
    \E b \in Builds :
        /\ et[b] # NONE
        /\ Len(draws[b]) = TRACE_WIDTH
        /\ \E c \in 2 .. TRACE_WIDTH : et[b].main_trace[c][Length(et[b]) - 1] # 0

\* C8: two builds with the same program hash and the same main width have the same
\* values in the tail rows of their main matrices, whatever their lengths.
C8_SameHashSameTail ==
    \A b1, b2 \in Builds :
        ( /\ et[b1] # NONE /\ et[b2] # NONE
          /\ et[b1].program_hash = et[b2].program_hash
          /\ Len(et[b1].main_trace) = Len(et[b2].main_trace) ) =>
            \A c \in 1 .. Len(et[b1].main_trace) : \A k \in 1 .. NUM_RAND_ROWS :
                et[b1].main_trace[c][Length(et[b1]) - k]
                    = et[b2].main_trace[c][Length(et[b2]) - k]

\* two builds with one hash, different step counts and different trace lengths
C8_Witness ==
    \E b1, b2 \in Builds :
        /\ b1 # b2
        /\ et[b1] # NONE /\ et[b2] # NONE
        /\ et[b1].program_hash = et[b2].program_hash
        /\ proc[b1].clk # proc[b2].clk
        /\ Length(et[b1]) # Length(et[b2])

\* C9: a segment returned by build_aux_segment has columns of exactly length() rows,
\* and no step taken once the trace is returned changes the trace (main matrix,
\* layout, metadata, hints, program hash).
C9_AuxSegmentFrame ==
    /\ [](\A b \in Builds :
            (aux_ret[b] # NONE /\ aux_ret[b].kind = "Some") =>
                \A c \in 1 .. Len(aux_ret[b].matrix) :
                    DOMAIN aux_ret[b].matrix[c] = 0 .. (Length(et[b]) - 1))
    /\ [][\A b \in Builds : et[b] # NONE => et'[b] = et[b]]_vars

C9_Witness ==
    \E b \in Builds :
        /\ aux_ret[b] # NONE /\ aux_ret[b].kind = "Some"
        /\ Len(aux_ret[b].matrix) = 2
        /\ Length(et[b]) = 4
        /\ NumRows(aux_ret[b].matrix) = 4

\* C10: a failed draw ends the build in the panic "failed to draw a random value":
\* the main assembly returns no trace after it, build_aux_segment returns nothing
\* after it, and in every returned trace and every returned segment all tail cells
\* come from successful draws.
C10_FailedDrawIsFatal ==
    \A b \in Builds :
        /\ (\E j \in 1 .. Len(draws[b]) : ~draws[b][j].ok) =>
                pc[b] = "panic" /\ panic[b] = MsgDraw /\ et[b] = NONE
        /\ panic[b] = MsgDraw => pc[b] = "panic" /\ aux_ret[b] = NONE /\ aux[b] = NoAux
        /\ et[b] # NONE =>
                /\ Len(draws[b]) = Len(et[b].main_trace) * NUM_RAND_ROWS
                /\ \A j \in 1 .. Len(draws[b]) : draws[b][j].ok
        /\ (aux_ret[b] # NONE /\ aux_ret[b].kind = "Some") =>
                /\ Len(aux_ret[b].draws) = Len(aux_ret[b].matrix) * NUM_RAND_ROWS
                /\ \A j \in 1 .. Len(aux_ret[b].draws) : aux_ret[b].draws[j].ok

\* the main assembly stopped by a failed draw after some cells were randomized
C10_Witness ==
    \E b \in Builds :
        /\ pc[b] = "panic" /\ panic[b] = MsgDraw
        /\ Len(draws[b]) >= 2
        /\ ~draws[b][Len(draws[b])].ok
        /\ et[b] = NONE

\* C11: apply_mds followed by apply_inv_mds gives back the state it started from:
\* INV_MDS is the inverse of MDS.
C11_MdsRoundTrip ==
    (sponge.kind = "mds" /\ sponge.pc = "unmixed") => sponge.state = sponge.input

\* a state with a large and a small element was mixed, changed by the mixing, and unmixed
C11_Witness ==
    /\ sponge.kind = "mds"
    /\ sponge.pc = "unmixed"
    /\ sponge.input = <<MDS[1], ONE, MINUS_ONE, ONE>>
    /\ apply_mds(sponge.input) # sponge.input

\* the state a round must reach before its second half, from the code's steps in order
BeforeSecondHalf(state, op_code, op_value, idx) ==
    Once(apply_mds(apply_sbox(add_constants(state, idx, 0))), LAMBDA s3 :
        add_constants(<<FAdd(s3[1], op_code), FAdd(s3[2], op_value), s3[3], s3[4]>>,
                      idx, STATE_WIDTH))

\* C12: apply_round adds the first-half constants of column step mod NUM_ROUNDS, applies
\* the s-box and the MDS, adds op_code to slot 0 and op_value to slot 1 and nothing to
\* the other slots, adds the second-half constants of the same column, applies the
\* inverse s-box and the MDS again (read backwards from its output through the inverse
\* MDS and the s-box); two calls whose steps are congruent mod NUM_ROUNDS, on equal
\* state, op_code and op_value, give equal outputs.
C12_RoundSequence ==
    sponge.kind = "round" =>
        /\ \A n \in 1 .. sponge.calls :
             apply_sbox(apply_inv_mds(sponge.out[n]))
                = BeforeSecondHalf(sponge.input, sponge.op_code, sponge.op_value,
                                   sponge.step[n] % NUM_ROUNDS)
        /\ (sponge.calls = 2 /\ sponge.step[1] % NUM_ROUNDS = sponge.step[2] % NUM_ROUNDS)
             => sponge.out[1] = sponge.out[2]

\* two calls were made with steps NUM_ROUNDS apart and a nonzero op_code, and the
\* round changed the state
C12_Witness ==
    /\ sponge.kind = "round"
    /\ sponge.calls = 2
    /\ sponge.step[2] = sponge.step[1] + NUM_ROUNDS
    /\ sponge.op_code # ZERO
    /\ sponge.out[2] # sponge.input
    /\ sponge.out[1] = sponge.out[2]

\* two views share a cell
Overlap(v, w) == v.buf = w.buf /\ v.from < w.to /\ w.from < v.to

\* no two columns of the fragment share a cell, and no column shares one with a slice
\* the caller holds
ViewsDisjoint(f) ==
    /\ \A i, j \in DOMAIN f.data : i # j => ~Overlap(f.data[i], f.data[j])
    /\ \A i \in DOMAIN f.data : \A r \in f.held : ~Overlap(f.data[i], r)
    /\ \A r, q \in f.held : r # q => ~Overlap(r, q)

\* C13 as stated: after any sequence of push_column_slice calls all the columns of the
\* fragment have the length len() reports, and the views overlap neither each other
\* nor the rest slices.
C13_Original ==
    (fragment.kind = "fragment" /\ fragment.data # <<>>) =>
        /\ \A i \in DOMAIN fragment.data :
             SliceLen(fragment.data[i]) = FragmentLen(fragment)
        /\ ViewsDisjoint(fragment)

\* C13: every column of the fragment has the length its push_column_slice call was
\* given, so the columns have one length, the one len() reports, when the calls were
\* given one len; whatever the calls, the views overlap neither each other nor the
\* slices returned to the caller.
C13_ColumnsAsPushed ==
    fragment.kind = "fragment" =>
        /\ Len(fragment.lens) = Len(fragment.data)
        /\ \A i \in DOMAIN fragment.data : SliceLen(fragment.data[i]) = fragment.lens[i]
        /\ (\A i, j \in DOMAIN fragment.lens : fragment.lens[i] = fragment.lens[j])
             => \A i \in DOMAIN fragment.data :
                  SliceLen(fragment.data[i]) = FragmentLen(fragment)
        /\ ViewsDisjoint(fragment)

\* three columns of one nonzero length were pushed, one of them a rest of an earlier
\* call, and the caller still holds a rest with cells in it
C13_Witness ==
    /\ fragment.kind = "fragment"
    /\ Len(fragment.data) = 3
    /\ fragment.lens[1] > 0
    /\ \A i \in DOMAIN fragment.lens : fragment.lens[i] = fragment.lens[1]
    /\ \E i \in DOMAIN fragment.data : fragment.data[i].from > 0
    /\ \E r \in fragment.held : SliceLen(r) > 0

\* build_aux_segment returns Some in this step
AuxReturns(b) == aux[b].state = "inject" /\ aux'[b].state = "idle" /\ panic'[b] = NoPanic

\* C14: the coin of build_aux_segment starts from the program hash like the coin of
\* the main segment and is drawn in the same order, so in a returned auxiliary segment
\* (over the base field) the tail cell of column k equals the tail cell of main column
\* k; and a call that returns after an earlier return with the same challenges returns
\* the same segment.
C14_AuxTailRepeatsMainTail ==
    /\ [](\A b \in Builds :
            (aux_ret[b] # NONE /\ aux_ret[b].kind = "Some") =>
                \A k \in 1 .. Len(aux_ret[b].matrix) : \A i \in TailRows(et[b].main_trace) :
                    aux_ret[b].matrix[k][i] = et[b].main_trace[k][i])
    /\ [][\A b \in Builds :
            (/\ AuxReturns(b)
             /\ aux_ret[b] # NONE
             /\ aux_ret[b].kind = "Some"
             /\ aux_ret[b].alpha = aux[b].alpha)
                => aux_ret'[b].matrix = aux_ret[b].matrix]_vars

\* a second call with the same challenges is about to return, after a first one has
\* returned a segment whose tail differs from the padding and between its columns
C14_Witness ==
    \E b \in Builds :
        /\ aux_ret[b] # NONE
        /\ aux_ret[b].kind = "Some"
        /\ aux[b].state = "inject"
        /\ aux[b].loop.i >= Length(et[b])
        /\ aux[b].alpha = aux_ret[b].alpha
        /\ aux_ret[b].matrix[1][Length(et[b]) - 1] # 0
        /\ aux_ret[b].matrix[1][Length(et[b]) - 1] # aux_ret[b].matrix[2][Length(et[b]) - 1]

====
